---- MODULE Spec2Model ----
(***************************************************************************)
(* Model of FunctionComponent._cb_retrieve_av_logs_function                *)
(* (src/functions/carbon_black/cb_retrieve_av_logs.py).                    *)
(*                                                                         *)
(* One invocation of the generator is one behaviour.  pc is the position   *)
(* of the generator in the function body; every remote call (Carbon Black  *)
(* inventory query, live-response session, Resilient REST client) is an    *)
(* environment choice among the outcomes the call can have: a value, a     *)
(* cbapi TimeoutError, or any other exception.                             *)
(*                                                                         *)
(* Time is counted in ticks of one polling sleep (time.sleep(3)).  The     *)
(* three-minute grace window, the 30 second settle sleep and the three-day *)
(* overall deadline are scaled down to a few ticks, keeping their order.   *)
(* Local temporary-file operations (tempfile, zipfile, os.unlink) are      *)
(* taken not to fail.  err.message (line 108) is the Python 2 attribute    *)
(* of BaseException, so reading it does not raise.                         *)
(* A call of session.close() that is reached closes the session.          *)
(***************************************************************************)
EXTENDS Integers, Sequences, FiniteSets, TLC

\* ---------------------------------------------------------------- constants
MAX_TIMEOUTS == 3

HostnameLimit == 15

\* ------------------------------------------------------------------- bounds
PollTicks == 1

GraceTicks == 1

SettleTicks == 1

DeadlineTicks == 2

MaxHostLen == 17

MaxListing == 1

\* ------------------------------------------------------------------ helpers
Unset == <<>>

Some(x) == <<x>>

Min(a, b) == IF a < b THEN a ELSE b

\* str.upper() on the characters the model uses
UpperChar(c) ==
    CASE c = "a" -> "A"
      [] c = "b" -> "B"
      [] OTHER -> c

Upper(s) == [i \in 1..Len(s) |-> UpperChar(s[i])]

\* s[:n]
Truncate(s, n) == SubSeq(s, 1, Min(Len(s), n))

\* line 57: (hostname.upper())[:15]
Normalize(s) == Truncate(Upper(s), HostnameLimit)

\* caller hostnames: mixed case, shorter than, equal to and longer than the limit
MixedHost(n) == [i \in 1..n |-> IF i % 3 = 1 THEN "a" ELSE IF i % 3 = 2 THEN "B" ELSE "-"]

UpperHost(n) == [i \in 1..n |-> IF i % 2 = 1 THEN "B" ELSE "A"]

Hostnames ==
    {UpperHost(2), MixedHost(MaxHostLen)}

\* kwargs.get("hostname"): a text value, or None when the caller passes none
KwHostnames == {Unset} \cup {Some(h) : h \in Hostnames}

\* one snapshot of the sensor as the inventory returns it
Snapshots == [status : {"Online", "Offline"}, restart_queued : BOOLEAN]

NoSensor == [status |-> "Unbound", restart_queued |-> FALSE]

\* outcome of one inventory query  cb.select(Sensor).where(...)[0]
QueryOutcomes == {"ok", "timeout", "error"}

\* a directory listing: each entry is a file or a directory
Listings == UNION {[1..n -> {"FILE", "DIRECTORY"}] : n \in 0..MaxListing}

RECURSIVE FilesOf(_, _)
\* [path for each_file in listing if 'DIRECTORY' not in each_file['attributes']]
FilesOf(listing, loc) ==
    IF listing = <<>> THEN <<>>
    ELSE (IF Head(listing) = "DIRECTORY" THEN <<>> ELSE <<loc>>) \o FilesOf(Tail(listing), loc)

VARIABLES
    pc,                         \* position in the function body
    kw_hostname,                \* kwargs["hostname"]
    hostname,                   \* local hostname after line 57
    sensor,                     \* local sensor (latest snapshot)
    timeouts,                   \* local timeouts
    clock,                      \* wall clock, datetime.datetime.now()
    now,                        \* local now
    three_minutes_passed,       \* local three_minutes_passed
    days_later_timeout_length,  \* local days_later_timeout_length
    session,                    \* local session: index into sessions, 0 when unbound
    sessions,                   \* every session opened: open flag and close() calls
    files_to_grab,              \* local files_to_grab
    fetched,                    \* files of files_to_grab already written to the zip
    results,                    \* local results dict
    notices,                    \* number of StatusMessages yielded
    emitted,                    \* FunctionResults yielded, in order
    errors,                     \* FunctionErrors yielded
    queried,                    \* hostnames used in inventory queries
    first_lookup,               \* outcome of the query of line 58
    restarts,                   \* restart_sensor() commands issued
    attachments,                \* attachments posted to the incident
    sleeps,                     \* time.sleep calls
    incident_lookups,           \* incident GET calls
    attempts,                   \* iterations of the retry loop started
    outcome,                    \* how the invocation ended
    listed                      \* outcomes of the location probes of the running discovery

vars == <<pc, kw_hostname, hostname, sensor, timeouts, clock, now, three_minutes_passed,
          days_later_timeout_length, session, sessions, files_to_grab, fetched, results,
          notices, emitted, errors, queried, first_lookup, restarts, attachments, sleeps,
          incident_lookups, attempts, outcome, listed>>

locals == <<hostname, sensor, timeouts, now, three_minutes_passed, days_later_timeout_length,
            session, files_to_grab, fetched, results>>

history == <<queried, first_lookup, restarts, attachments, sleeps, incident_lookups, attempts>>

Init ==
    /\ pc = "start"
    /\ kw_hostname \in KwHostnames
    /\ hostname = <<>>
    /\ sensor = NoSensor
    /\ timeouts = 0
    /\ clock = 0
    /\ now = 0
    /\ three_minutes_passed = 0
    /\ days_later_timeout_length = 0
    /\ session = 0
    /\ sessions = <<>>
    /\ files_to_grab = <<>>
    /\ fetched = 0
    /\ results = [was_successful |-> Unset, hostname |-> Unset]
    /\ notices = 0
    /\ emitted = <<>>
    /\ errors = 0
    /\ queried = {}
    /\ first_lookup = "pending"
    /\ restarts = 0
    /\ attachments = 0
    /\ sleeps = 0
    /\ incident_lookups = 0
    /\ attempts = 0
    /\ outcome = "running"
    /\ listed = <<>>

\* lines 47-57: read the parameters, fix the overall deadline, normalize the hostname
Start ==
    /\ pc = "start"
    /\ IF kw_hostname = Unset
       THEN \* None.upper() raises AttributeError, caught at line 192
            /\ pc' = "function_error"
            /\ UNCHANGED <<hostname, days_later_timeout_length>>
       ELSE /\ days_later_timeout_length' = clock + DeadlineTicks
            /\ hostname' = Normalize(kw_hostname[1])
            /\ pc' = "select"
    /\ UNCHANGED <<kw_hostname, sensor, timeouts, clock, now, three_minutes_passed, session,
                   sessions, files_to_grab, fetched, results, notices, emitted, errors,
                   history, outcome>>
    /\ UNCHANGED listed

\* lines 58-61 and 67-68: query the inventory for the hostname's sensor, timeouts = 0
SelectSensor ==
    /\ pc = "select"
    /\ queried' = queried \cup {hostname}
    /\ timeouts' = 0
    /\ \E r \in {"none", "error", "found"}, s \in Snapshots :
         /\ first_lookup' = r
         /\ IF r = "error"
            THEN pc' = "function_error" /\ UNCHANGED <<sensor, results>>
            ELSE IF r = "none"
            THEN pc' = "not_found" /\ UNCHANGED <<sensor, results>>
            ELSE \* lines 67-68
                 /\ sensor' = s
                 /\ results' = [results EXCEPT !.hostname = Some(Upper(hostname))]
                 /\ pc' = "loop"
    /\ UNCHANGED <<kw_hostname, hostname, clock, now, three_minutes_passed,
                   days_later_timeout_length, session, sessions, files_to_grab, fetched,
                   notices, emitted, errors, restarts, attachments, sleeps, incident_lookups,
                   attempts, outcome>>
    /\ UNCHANGED listed

\* AgentNotFound without the return of line 65: the function falls through to the loop
AgentNotFoundNoReturn ==
    /\ pc = "not_found"
    /\ notices' = notices + 1
    /\ results' = [results EXCEPT !.was_successful = Some(FALSE)]
    /\ emitted' = Append(emitted, results')
    /\ outcome' = "not_found"
    /\ pc' = "loop"
    /\ UNCHANGED <<kw_hostname, hostname, sensor, timeouts, clock, now, three_minutes_passed,
                   days_later_timeout_length, session, sessions, files_to_grab, fetched,
                   errors, history>>
    /\ UNCHANGED listed

\* lines 61-65: host has no agent, abort
AgentNotFound ==
    /\ pc = "not_found"
    /\ notices' = notices + 1
    /\ results' = [results EXCEPT !.was_successful = Some(FALSE)]
    /\ emitted' = Append(emitted, results')
    /\ outcome' = "not_found"
    /\ pc' = "done"
    /\ UNCHANGED <<kw_hostname, hostname, sensor, timeouts, clock, now, three_minutes_passed,
                   days_later_timeout_length, session, sessions, files_to_grab, fetched,
                   errors, history>>
    /\ UNCHANGED listed

\* LoopHead whose guard admits one attempt more
LoopHeadOffByOne ==
    /\ pc = "loop"
    /\ IF timeouts <= MAX_TIMEOUTS + 1
       THEN /\ now' = clock
            /\ three_minutes_passed' = clock + GraceTicks
            /\ attempts' = attempts + 1
            /\ pc' = "restart_wait1"
       ELSE /\ pc' = "emit_result"
            /\ UNCHANGED <<now, three_minutes_passed, attempts>>
    /\ UNCHANGED <<kw_hostname, hostname, sensor, timeouts, clock, days_later_timeout_length,
                   session, sessions, files_to_grab, fetched, results, notices, emitted,
                   errors, queried, first_lookup, restarts, attachments, sleeps,
                   incident_lookups, outcome>>
    /\ UNCHANGED listed

\* LoopHead that computes the overall deadline anew for every attempt
LoopHeadExtendsDeadline ==
    /\ pc = "loop"
    /\ IF timeouts <= MAX_TIMEOUTS
       THEN /\ now' = clock
            /\ days_later_timeout_length' = clock + DeadlineTicks
            /\ three_minutes_passed' = clock + GraceTicks
            /\ attempts' = attempts + 1
            /\ pc' = "restart_wait1"
       ELSE /\ pc' = "emit_result"
            /\ UNCHANGED <<now, three_minutes_passed, attempts, days_later_timeout_length>>
    /\ UNCHANGED <<kw_hostname, hostname, sensor, timeouts, clock,
                   session, sessions, files_to_grab, fetched, results, notices, emitted,
                   errors, queried, first_lookup, restarts, attachments, sleeps,
                   incident_lookups, outcome>>
    /\ UNCHANGED listed

\* line 70: while timeouts <= MAX_TIMEOUTS; lines 74-77 open the attempt
LoopHead ==
    /\ pc = "loop"
    /\ IF timeouts <= MAX_TIMEOUTS
       THEN /\ now' = clock
            /\ three_minutes_passed' = clock + GraceTicks
            /\ attempts' = attempts + 1
            /\ pc' = "restart_wait1"
       ELSE /\ pc' = "emit_result"
            /\ UNCHANGED <<now, three_minutes_passed, attempts>>
    /\ UNCHANGED <<kw_hostname, hostname, sensor, timeouts, clock, days_later_timeout_length,
                   session, sessions, files_to_grab, fetched, results, notices, emitted,
                   errors, queried, first_lookup, restarts, attachments, sleeps,
                   incident_lookups, outcome>>
    /\ UNCHANGED listed

\* body of the three polling loops: time.sleep(3); now = datetime.now(); refresh the sensor
Poll(back) ==
    /\ clock' = clock + PollTicks
    /\ now' = clock'
    /\ sleeps' = sleeps + 1
    /\ queried' = queried \cup {hostname}
    /\ \E o \in QueryOutcomes, s \in Snapshots :
         CASE o = "ok" -> sensor' = s /\ pc' = back
           [] o = "timeout" -> UNCHANGED sensor /\ pc' = "except_timeout"
           [] o = "error" -> UNCHANGED sensor /\ pc' = "except_exception"

\* RestartWait1 whose loop condition joins its two tests with 'or'
RestartWait1PollsAnyway ==
    /\ pc = "restart_wait1"
    /\ IF sensor.restart_queued \/ three_minutes_passed >= now
       THEN Poll("restart_wait1")
       ELSE /\ pc' = "online_check"
            /\ UNCHANGED <<clock, now, sleeps, queried, sensor>>
    /\ UNCHANGED <<kw_hostname, hostname, timeouts, three_minutes_passed,
                   days_later_timeout_length, session, sessions, files_to_grab, fetched,
                   results, notices, emitted, errors, first_lookup, restarts, attachments,
                   incident_lookups, attempts, outcome>>
    /\ UNCHANGED listed

\* lines 78-81: first restart-pending wait
RestartWait1 ==
    /\ pc = "restart_wait1"
    /\ IF sensor.restart_queued /\ three_minutes_passed >= now
       THEN Poll("restart_wait1")
       ELSE /\ pc' = "online_check"
            /\ UNCHANGED <<clock, now, sleeps, queried, sensor>>
    /\ UNCHANGED <<kw_hostname, hostname, timeouts, three_minutes_passed,
                   days_later_timeout_length, session, sessions, files_to_grab, fetched,
                   results, notices, emitted, errors, first_lookup, restarts, attachments,
                   incident_lookups, attempts, outcome>>
    /\ UNCHANGED listed

\* lines 84-85: one advisory when the sensor is not online
OnlineCheck ==
    /\ pc = "online_check"
    /\ notices' = (IF sensor.status # "Online" THEN notices + 1 ELSE notices)
    /\ pc' = "online_wait"
    /\ UNCHANGED <<kw_hostname, locals, clock, sessions, emitted, errors, history, outcome>>
    /\ UNCHANGED listed

\* lines 86-89: wait for the sensor to come online until the overall deadline
OnlineWait ==
    /\ pc = "online_wait"
    /\ IF sensor.status # "Online" /\ days_later_timeout_length >= now
       THEN Poll("online_wait")
       ELSE /\ pc' = "abort_check"
            /\ UNCHANGED <<clock, now, sleeps, queried, sensor>>
    /\ UNCHANGED <<kw_hostname, hostname, timeouts, three_minutes_passed,
                   days_later_timeout_length, session, sessions, files_to_grab, fetched,
                   results, notices, emitted, errors, first_lookup, restarts, attachments,
                   incident_lookups, attempts, outcome>>
    /\ UNCHANGED listed

\* AbortCheck without the abort of lines 92-96
AbortCheckNoAbort ==
    /\ pc = "abort_check"
    /\ three_minutes_passed' = clock + GraceTicks
    /\ pc' = "restart_wait2"
    /\ UNCHANGED <<notices, results, emitted, outcome>>
    /\ UNCHANGED <<kw_hostname, hostname, sensor, timeouts, clock, now,
                   days_later_timeout_length, session, sessions, files_to_grab, fetched,
                   errors, history>>
    /\ UNCHANGED listed

\* lines 92-96: abort when still offline; line 99 otherwise
AbortCheck ==
    /\ pc = "abort_check"
    /\ IF sensor.status # "Online"
       THEN /\ notices' = notices + 1
            /\ results' = [results EXCEPT !.was_successful = Some(FALSE)]
            /\ emitted' = Append(emitted, results')
            /\ outcome' = "unreachable"
            /\ pc' = "done"
            /\ UNCHANGED three_minutes_passed
       ELSE /\ three_minutes_passed' = clock + GraceTicks
            /\ pc' = "restart_wait2"
            /\ UNCHANGED <<notices, results, emitted, outcome>>
    /\ UNCHANGED <<kw_hostname, hostname, sensor, timeouts, clock, now,
                   days_later_timeout_length, session, sessions, files_to_grab, fetched,
                   errors, history>>
    /\ UNCHANGED listed

\* RestartWait2 that fails the attempt when the grace window ends with the restart pending
RestartWait2FailsOnElapse ==
    /\ pc = "restart_wait2"
    /\ IF sensor.restart_queued /\ three_minutes_passed >= now
       THEN Poll("restart_wait2")
       ELSE /\ pc' = (IF sensor.restart_queued THEN "except_exception" ELSE "incident")
            /\ UNCHANGED <<clock, now, sleeps, queried, sensor>>
    /\ UNCHANGED <<kw_hostname, hostname, timeouts, three_minutes_passed,
                   days_later_timeout_length, session, sessions, files_to_grab, fetched,
                   results, notices, emitted, errors, first_lookup, restarts, attachments,
                   incident_lookups, attempts, outcome>>
    /\ UNCHANGED listed

\* lines 100-103: second restart-pending wait
RestartWait2 ==
    /\ pc = "restart_wait2"
    /\ IF sensor.restart_queued /\ three_minutes_passed >= now
       THEN Poll("restart_wait2")
       ELSE /\ pc' = "incident"
            /\ UNCHANGED <<clock, now, sleeps, queried, sensor>>
    /\ UNCHANGED <<kw_hostname, hostname, timeouts, three_minutes_passed,
                   days_later_timeout_length, session, sessions, files_to_grab, fetched,
                   results, notices, emitted, errors, first_lookup, restarts, attachments,
                   incident_lookups, attempts, outcome>>
    /\ UNCHANGED listed

\* IncidentLookup whose handler lets the failure reach the except clause of line 177
IncidentLookupLoud ==
    /\ pc = "incident"
    /\ incident_lookups' = incident_lookups + 1
    /\ \E o \in {"ok", "not_found", "unreachable"} :
         IF o = "ok"
         THEN pc' = "open" /\ UNCHANGED outcome
         ELSE pc' = "except_exception" /\ outcome' = "incident"
    /\ UNCHANGED <<kw_hostname, locals, clock, sessions, notices, emitted, errors, queried,
                   first_lookup, restarts, attachments, sleeps, attempts>>
    /\ UNCHANGED listed

\* lines 106-114: the incident must still exist and be reachable, else return silently
IncidentLookup ==
    /\ pc = "incident"
    /\ incident_lookups' = incident_lookups + 1
    /\ \E o \in {"ok", "not_found", "unreachable"} :
         IF o = "ok"
         THEN pc' = "open" /\ UNCHANGED outcome
         ELSE pc' = "done" /\ outcome' = "incident"
    /\ UNCHANGED <<kw_hostname, locals, clock, sessions, notices, emitted, errors, queried,
                   first_lookup, restarts, attachments, sleeps, attempts>>
    /\ UNCHANGED listed

\* lines 117-121: establish the live-response session
OpenSession ==
    /\ pc = "open"
    /\ \E o \in {"ok", "timeout", "error"} :
         CASE o = "ok" ->
                /\ sessions' = Append(sessions, [open |-> TRUE, closes |-> 0])
                /\ session' = Len(sessions')
                /\ files_to_grab' = <<>>
                /\ listed' = <<>>
                /\ notices' = notices + 2
                /\ pc' = "probe1"
           [] o = "timeout" ->
                /\ notices' = notices + 1
                /\ pc' = "except_timeout"
                /\ UNCHANGED <<sessions, session, files_to_grab, listed>>
           [] o = "error" ->
                /\ notices' = notices + 1
                /\ pc' = "except_exception"
                /\ UNCHANGED <<sessions, session, files_to_grab, listed>>
    /\ UNCHANGED <<kw_hostname, hostname, sensor, timeouts, clock, now, three_minutes_passed,
                   days_later_timeout_length, fetched, results, emitted, errors, history,
                   outcome>>

\* Probe whose handler is a bare 'except: pass', which also absorbs the TimeoutError
ProbeAbsorbsTimeout(loc, next) ==
    /\ \E o \in {"ok", "timeout", "error"}, l \in Listings :
         /\ listed' = Append(listed, o)
         /\ CASE o = "ok" -> files_to_grab' = files_to_grab \o FilesOf(l, loc) /\ pc' = next
              [] o = "timeout" -> UNCHANGED files_to_grab /\ pc' = next
              [] o = "error" -> UNCHANGED files_to_grab /\ pc' = next
    /\ UNCHANGED <<kw_hostname, hostname, sensor, timeouts, clock, now, three_minutes_passed,
                   days_later_timeout_length, session, sessions, fetched, results, notices,
                   emitted, errors, history, outcome>>

\* lines 123-128 and 130-135: probe one candidate location; a timeout is re-raised,
\* any other error is passed over
Probe(loc, next) ==
    /\ \E o \in {"ok", "timeout", "error"}, l \in Listings :
         /\ listed' = Append(listed, o)
         /\ CASE o = "ok" -> files_to_grab' = files_to_grab \o FilesOf(l, loc) /\ pc' = next
              [] o = "timeout" -> UNCHANGED files_to_grab /\ pc' = "except_timeout"
              [] o = "error" -> UNCHANGED files_to_grab /\ pc' = next
    /\ UNCHANGED <<kw_hostname, hostname, sensor, timeouts, clock, now, three_minutes_passed,
                   days_later_timeout_length, session, sessions, fetched, results, notices,
                   emitted, errors, history, outcome>>

ProbeAntimalware ==
    pc = "probe1" /\ Probe("Antimalware", "probe2")

ProbeDefender ==
    pc = "probe2" /\ Probe("Defender", "nologs_check")

\* NoLogsCheck that treats an empty result as a transient failure and raises TimeoutError
NoLogsCheckAsTimeout ==
    /\ pc = "nologs_check"
    /\ IF files_to_grab = <<>>
       THEN /\ pc' = "except_timeout"
            /\ UNCHANGED fetched
       ELSE /\ fetched' = 0
            /\ pc' = "extract"
    /\ UNCHANGED <<kw_hostname, hostname, sensor, timeouts, clock, now, three_minutes_passed,
                   days_later_timeout_length, session, sessions, files_to_grab, errors,
                   history, notices, results, emitted, outcome>>
    /\ UNCHANGED listed

\* lines 137-141: no log files located, abort; lines 143-145 otherwise
NoLogsCheck ==
    /\ pc = "nologs_check"
    /\ IF files_to_grab = <<>>
       THEN /\ notices' = notices + 1
            /\ results' = [results EXCEPT !.was_successful = Some(FALSE)]
            /\ emitted' = Append(emitted, results')
            /\ outcome' = "nologs"
            /\ pc' = "done"
            /\ UNCHANGED fetched
       ELSE /\ fetched' = 0
            /\ pc' = "extract"
            /\ UNCHANGED <<notices, results, emitted, outcome>>
    /\ UNCHANGED <<kw_hostname, hostname, sensor, timeouts, clock, now, three_minutes_passed,
                   days_later_timeout_length, session, sessions, files_to_grab, errors,
                   history>>
    /\ listed' = <<>>

\* lines 146-155: fetch the next located file into the zip
Extract ==
    /\ pc = "extract"
    /\ IF fetched < Len(files_to_grab)
       THEN \E o \in {"ok", "timeout", "error"} :
              CASE o = "ok" -> fetched' = fetched + 1 /\ pc' = "extract"
                [] o = "timeout" -> UNCHANGED fetched /\ pc' = "except_timeout"
                [] o = "error" -> UNCHANGED fetched /\ pc' = "except_exception"
       ELSE pc' = "post" /\ UNCHANGED fetched
    /\ UNCHANGED <<kw_hostname, hostname, sensor, timeouts, clock, now, three_minutes_passed,
                   days_later_timeout_length, session, sessions, files_to_grab, results,
                   notices, emitted, errors, history, outcome>>
    /\ UNCHANGED listed

\* PostAttachment whose upload is followed by a TimeoutError, so that the attempt is retried
PostAttachmentThenTimeout ==
    /\ pc = "post"
    /\ \E o \in {"ok", "error"} :
         IF o = "ok"
         THEN /\ attachments' = attachments + 1
              /\ notices' = notices + 1
              /\ pc' = "except_timeout"
         ELSE /\ pc' = "except_exception"
              /\ UNCHANGED <<attachments, notices>>
    /\ UNCHANGED <<kw_hostname, locals, clock, sessions, emitted, errors, queried,
                   first_lookup, restarts, sleeps, incident_lookups, attempts, outcome>>
    /\ UNCHANGED listed

\* lines 156-160: post the zip to the incident
PostAttachment ==
    /\ pc = "post"
    /\ \E o \in {"ok", "error"} :
         IF o = "ok"
         THEN /\ attachments' = attachments + 1
              /\ notices' = notices + 1
              /\ pc' = "else_branch"
         ELSE /\ pc' = "except_exception"
              /\ UNCHANGED <<attachments, notices>>
    /\ UNCHANGED <<kw_hostname, locals, clock, sessions, emitted, errors, queried,
                   first_lookup, restarts, sleeps, incident_lookups, attempts, outcome>>
    /\ UNCHANGED listed

\* CloseSession whose close() is counted but leaves the session open
CloseSessionLeavesOpen(ss, i) ==
    IF i = 0 THEN ss
    ELSE [ss EXCEPT ![i] = [open |-> @.open, closes |-> @.closes + 1]]

\* session.close() on the object the local 'session' names; with 'session' unbound the
\* NameError is swallowed by the bare except
CloseSession(ss, i) ==
    IF i = 0 THEN ss
    ELSE [ss EXCEPT ![i] = [open |-> FALSE, closes |-> @.closes + 1]]

\* ExceptTimeout that retries at once, without the recovery of lines 169-174
ExceptTimeoutRetriesAtOnce ==
    /\ pc = "except_timeout"
    /\ timeouts' = timeouts + 1
    /\ IF timeouts' <= MAX_TIMEOUTS
       THEN /\ notices' = notices + 1
            /\ UNCHANGED results
       ELSE /\ notices' = notices + 2
            /\ results' = [results EXCEPT !.was_successful = Some(FALSE)]
    /\ pc' = "loop"
    /\ UNCHANGED <<kw_hostname, hostname, sensor, clock, now, three_minutes_passed,
                   days_later_timeout_length, session, sessions, files_to_grab, fetched,
                   emitted, errors, history, outcome>>
    /\ listed' = <<>>

\* lines 162-168: count the timeout, announce the retry or the abort
ExceptTimeout ==
    /\ pc = "except_timeout"
    /\ timeouts' = timeouts + 1
    /\ IF timeouts' <= MAX_TIMEOUTS
       THEN /\ notices' = notices + 1
            /\ UNCHANGED results
       ELSE /\ notices' = notices + 2
            /\ results' = [results EXCEPT !.was_successful = Some(FALSE)]
    /\ pc' = "recover_close"
    /\ UNCHANGED <<kw_hostname, hostname, sensor, clock, now, three_minutes_passed,
                   days_later_timeout_length, session, sessions, files_to_grab, fetched,
                   emitted, errors, history, outcome>>
    /\ listed' = <<>>

\* RecoverClose without the session.close() of line 169
RecoverCloseSkipped ==
    /\ pc = "recover_close"
    /\ pc' = "recover_refresh"
    /\ UNCHANGED <<kw_hostname, locals, clock, sessions, notices, emitted, errors, history,
                   outcome>>
    /\ UNCHANGED listed

\* lines 169-170: close the session in the timeout handler
RecoverClose ==
    /\ pc = "recover_close"
    /\ sessions' = CloseSession(sessions, session)
    /\ pc' = "recover_refresh"
    /\ UNCHANGED <<kw_hostname, locals, clock, notices, emitted, errors, history, outcome>>
    /\ UNCHANGED listed

\* line 171: refresh the sensor; an exception here leaves the handler for line 192
RecoverRefresh ==
    /\ pc = "recover_refresh"
    /\ queried' = queried \cup {hostname}
    /\ \E o \in {"ok", "error"}, s \in Snapshots :
         IF o = "ok"
         THEN sensor' = s /\ pc' = "recover_restart"
         ELSE UNCHANGED sensor /\ pc' = "function_error"
    /\ UNCHANGED <<kw_hostname, hostname, timeouts, clock, now, three_minutes_passed,
                   days_later_timeout_length, session, sessions, files_to_grab, fetched,
                   results, notices, emitted, errors, first_lookup, restarts, attachments,
                   sleeps, incident_lookups, attempts, outcome>>
    /\ UNCHANGED listed

\* line 172: sensor.restart_sensor()
RecoverRestart ==
    /\ pc = "recover_restart"
    /\ \E o \in {"ok", "error"} :
         IF o = "ok"
         THEN restarts' = restarts + 1 /\ pc' = "recover_settle"
         ELSE UNCHANGED restarts /\ pc' = "function_error"
    /\ UNCHANGED <<kw_hostname, locals, clock, sessions, notices, emitted, errors, queried,
                   first_lookup, attachments, sleeps, incident_lookups, attempts, outcome>>
    /\ UNCHANGED listed

\* lines 173-175: time.sleep(30), refresh the sensor, continue
RecoverSettle ==
    /\ pc = "recover_settle"
    /\ clock' = clock + SettleTicks
    /\ sleeps' = sleeps + 1
    /\ queried' = queried \cup {hostname}
    /\ \E o \in {"ok", "error"}, s \in Snapshots :
         IF o = "ok"
         THEN sensor' = s /\ pc' = "loop"
         ELSE UNCHANGED sensor /\ pc' = "function_error"
    /\ UNCHANGED <<kw_hostname, hostname, timeouts, now, three_minutes_passed,
                   days_later_timeout_length, session, sessions, files_to_grab, fetched,
                   results, notices, emitted, errors, first_lookup, restarts, attachments,
                   incident_lookups, attempts, outcome>>
    /\ UNCHANGED listed

\* ExceptException that retries the attempt instead of aborting
ExceptExceptionRetries ==
    /\ pc = "except_exception"
    /\ notices' = notices + 2
    /\ results' = [results EXCEPT !.was_successful = Some(FALSE)]
    /\ pc' = "loop"
    /\ UNCHANGED <<kw_hostname, hostname, sensor, timeouts, clock, now, three_minutes_passed,
                   days_later_timeout_length, session, sessions, files_to_grab, fetched,
                   emitted, errors, history, outcome>>
    /\ UNCHANGED listed

\* ExceptException that marks the result successful
ExceptExceptionMarksSuccess ==
    /\ pc = "except_exception"
    /\ notices' = notices + 2
    /\ results' = [results EXCEPT !.was_successful = Some(TRUE)]
    /\ pc' = "final_close"
    /\ UNCHANGED <<kw_hostname, hostname, sensor, timeouts, clock, now, three_minutes_passed,
                   days_later_timeout_length, session, sessions, files_to_grab, fetched,
                   emitted, errors, history, outcome>>
    /\ UNCHANGED listed

\* lines 177-180: any other exception aborts
ExceptException ==
    /\ pc = "except_exception"
    /\ notices' = notices + 2
    /\ results' = [results EXCEPT !.was_successful = Some(FALSE)]
    /\ pc' = "final_close"
    /\ UNCHANGED <<kw_hostname, hostname, sensor, timeouts, clock, now, three_minutes_passed,
                   days_later_timeout_length, session, sessions, files_to_grab, fetched,
                   emitted, errors, history, outcome>>
    /\ UNCHANGED listed

\* lines 182-183: the attempt raised nothing
ElseBranch ==
    /\ pc = "else_branch"
    /\ results' = [results EXCEPT !.was_successful = Some(TRUE)]
    /\ pc' = "final_close"
    /\ UNCHANGED <<kw_hostname, hostname, sensor, timeouts, clock, now, three_minutes_passed,
                   days_later_timeout_length, session, sessions, files_to_grab, fetched,
                   notices, emitted, errors, history, outcome>>
    /\ UNCHANGED listed

\* lines 185-188: close the session, announce it, break
FinalClose ==
    /\ pc = "final_close"
    /\ sessions' = CloseSession(sessions, session)
    /\ notices' = notices + 1
    /\ pc' = "emit_result"
    /\ UNCHANGED <<kw_hostname, locals, clock, emitted, errors, history, outcome>>
    /\ UNCHANGED listed

\* line 191: yield FunctionResult(results)
EmitResult ==
    /\ pc = "emit_result"
    /\ emitted' = Append(emitted, results)
    /\ outcome' = "result"
    /\ pc' = "done"
    /\ UNCHANGED <<kw_hostname, locals, clock, sessions, notices, errors, history>>
    /\ UNCHANGED listed

\* lines 192-193: yield FunctionError()
YieldFunctionError ==
    /\ pc = "function_error"
    /\ errors' = errors + 1
    /\ outcome' = "error"
    /\ pc' = "done"
    /\ UNCHANGED <<kw_hostname, locals, clock, sessions, notices, emitted, history>>
    /\ UNCHANGED listed

Next ==
    \/ Start
    \/ SelectSensor
    \/ AgentNotFound
    \/ LoopHead
    \/ RestartWait1
    \/ OnlineCheck
    \/ OnlineWait
    \/ AbortCheck
    \/ RestartWait2
    \/ IncidentLookup
    \/ OpenSession
    \/ ProbeAntimalware
    \/ ProbeDefender
    \/ NoLogsCheck
    \/ Extract
    \/ PostAttachment
    \/ ExceptTimeout
    \/ RecoverClose
    \/ RecoverRefresh
    \/ RecoverRestart
    \/ RecoverSettle
    \/ ExceptException
    \/ ElseBranch
    \/ FinalClose
    \/ EmitResult
    \/ YieldFunctionError

Spec == Init /\ [][Next]_vars

\* ------------------------------------------------------------------- claims
OpenSessions == {i \in DOMAIN sessions : sessions[i].open}

Failed(r) == r.was_successful = Some(FALSE)

Succeeded(r) == r.was_successful = Some(TRUE)

\* C1 (as claimed): an invocation in which each of the four attempts got as far as the
\* incident lookup and then failed with a timeout ends with one failed InvocationResult
\* and has commanded exactly MAX_TIMEOUTS = 3 agent restarts.
C1_ThreeRestartsAfterFourTimeouts ==
    (pc = "done" /\ outcome = "result"
        /\ timeouts = MAX_TIMEOUTS + 1 /\ incident_lookups = MAX_TIMEOUTS + 1)
        => (Len(emitted) = 1 /\ Failed(emitted[1]) /\ restarts = MAX_TIMEOUTS)

\* C2 (as claimed): when the invocation has ended, no session that was opened is still open.
C2_NoSessionLeftOpen ==
    pc = "done" => OpenSessions = {}

\* C3 (as claimed, leaving aside the no-logs exit, which C2 shows never closes): no
\* session is ever closed twice, and when the invocation has ended close() has been
\* called exactly once on every session that was opened.
C3_EverySessionClosedOnce ==
    /\ \A i \in DOMAIN sessions : sessions[i].closes <= 1
    /\ (pc = "done" /\ outcome # "nologs") => \A i \in DOMAIN sessions : sessions[i].closes = 1

\* C4: in every reachable state at most one session is open, so a session is requested
\* only when every session opened before it has been closed.
C4_AtMostOneSessionOpen ==
    Cardinality(OpenSessions) <= 1

C4_SecondSessionOpen ==
    Len(sessions) >= 2 /\ sessions[Len(sessions)].open /\ ~sessions[1].open

\* C5 (as claimed, for invocations whose initial inventory lookup returned): an invocation
\* that ends on any path other than the failed incident lookup has emitted exactly one
\* InvocationResult; the quiet exit has emitted none.
C5_ExactlyOneResult ==
    /\ Len(emitted) <= 1
    /\ (pc = "done" /\ first_lookup \in {"none", "found"})
          => Len(emitted) = (IF outcome = "incident" THEN 0 ELSE 1)

\* C6 (as claimed): every emitted InvocationResult carries the normalized caller hostname
\* (uppercased, cut to 15 characters), and every inventory query uses that same value.
C6_ResultHostnameNormalized ==
    kw_hostname # Unset =>
        /\ \A i \in DOMAIN emitted : emitted[i].hostname = Some(Normalize(kw_hostname[1]))
        /\ queried \subseteq {Normalize(kw_hostname[1])}

\* C7 (as claimed): when the incident lookup has failed, the whole invocation has emitted
\* zero status notices and zero InvocationResults.
C7_QuietExitNoNoticesAtAll ==
    outcome = "incident" => (notices = 0 /\ emitted = <<>>)

\* C7 (amended): a failed incident lookup ends the invocation at once with zero
\* InvocationResults and no FunctionError, and emits no status notice at or after the
\* lookup; notices emitted before it stand, and in the first attempt that is at most the
\* one offline advisory.
C7_QuietFromLookupOn ==
    /\ [](outcome = "incident" =>
            (pc = "done" /\ emitted = <<>> /\ errors = 0 /\ (attempts = 1 => notices <= 1)))
    /\ [][(pc = "incident" /\ pc' # "open")
            => (pc' = "done" /\ notices' = notices /\ emitted' = emitted /\ errors' = errors)]_vars

C7_QuietExitAfterNotices ==
    outcome = "incident" /\ pc = "done" /\ notices > 0 /\ timeouts > 0

\* C8: when the initial inventory lookup returns no agent, the only thing that follows is
\* the abort: one failed InvocationResult, and no sleep, incident lookup, session open,
\* agent restart or attempt.
C8_NotFoundFailsWithoutRetry ==
    first_lookup = "none" =>
        /\ pc \in {"not_found", "done"}
        /\ sleeps = 0 /\ incident_lookups = 0 /\ sessions = <<>> /\ restarts = 0 /\ attempts = 0
        /\ errors = 0
        /\ pc = "done" => (Len(emitted) = 1 /\ Failed(emitted[1]))

C8_NotFoundEnded ==
    first_lookup = "none" /\ pc = "done" /\ outcome = "not_found"

\* C9: when both locations were probed without a timeout and no file was found, the
\* invocation ends there with one failed InvocationResult, no attachment posted, the
\* timeouts counter unchanged and no agent restart commanded.
C9_NoLogsFailsWithoutRetry ==
    [][(pc = "nologs_check" /\ files_to_grab = <<>>)
        => /\ pc' = "done"
           /\ Len(emitted') = 1 /\ Failed(emitted'[1])
           /\ attachments' = 0
           /\ timeouts' = timeouts
           /\ restarts' = restarts]_vars

C9_NoLogsAfterTimeouts ==
    outcome = "nologs" /\ pc = "done" /\ timeouts > 0 /\ sensor.restart_queued

\* C10: once every located file was fetched and the attachment was posted, nothing but
\* the successful ending follows: exactly one InvocationResult, with was_successful true,
\* and exactly one attachment; and a result is successful only if an attachment was posted.
C10_SuccessIffAttachment ==
    /\ attachments <= 1
    /\ attachments = 1 =>
         /\ pc \in {"else_branch", "final_close", "emit_result", "done"}
         /\ errors = 0
         /\ fetched = Len(files_to_grab)
         /\ pc = "done" => (Len(emitted) = 1 /\ Succeeded(emitted[1]))
    /\ \A i \in DOMAIN emitted : Succeeded(emitted[i]) => attachments = 1

C10_SucceededWithAttachment ==
    pc = "done" /\ attachments = 1 /\ Len(emitted) = 1 /\ Succeeded(emitted[1])

\* C11: over the whole invocation at most one attachment is posted, and once an attachment
\* has been posted no further attempt is started and no timeout is counted.
C11_AtMostOneAttachment ==
    /\ [](attachments \in {0, 1})
    /\ [][attachments = 1 => (attachments' = 1 /\ attempts' = attempts /\ timeouts' = timeouts
                                /\ pc' \notin {"loop", "except_timeout", "post"})]_vars

C11_AttachmentAfterRetry ==
    pc = "done" /\ attachments = 1 /\ timeouts > 0 /\ attempts = timeouts + 1

\* C12: an attempt that fails with a non-timeout error goes straight to the failed ending:
\* the except clause marks the result failed, the session is closed, the result is
\* emitted, and on the way the timeouts counter, the restarts and the attempts stay as they are.
C12_OtherErrorIsTerminal ==
    [][(pc \in {"except_exception", "final_close", "emit_result"})
        => ( /\ timeouts' = timeouts /\ restarts' = restarts /\ attempts' = attempts
             /\ pc = "except_exception" => (pc' = "final_close" /\ Failed(results'))
             /\ pc = "final_close" => (pc' = "emit_result" /\ results' = results)
             /\ pc = "emit_result" => (pc' = "done" /\ emitted' = <<results>> /\ errors' = 0) )
      ]_vars

C12_FailedWithoutRetry ==
    /\ pc = "done" /\ outcome = "result"
    /\ Len(emitted) = 1 /\ Failed(emitted[1])
    /\ timeouts \in 1..MAX_TIMEOUTS /\ restarts = timeouts /\ attempts = timeouts + 1

\* C13 (as claimed): wherever an incident lookup or a session open follows the
\* Availability Waiter, the sensor snapshot in use is Online and not restart-pending.
C13_WaiterYieldsOnlineNotPending ==
    pc \in {"incident", "open"} => (sensor.status = "Online" /\ ~sensor.restart_queued)

\* C13 (amended): the Availability Waiter goes on to the second restart-pending wait only
\* with a snapshot whose status is Online, and it completes only from that wait; when it
\* has completed, the snapshot in use is restart-pending only if the grace window has
\* elapsed, and it is Online unless it was refreshed during that second wait.
C13_WaiterOutput ==
    /\ [](pc \in {"restart_wait2", "incident", "open"} =>
            /\ (pc # "restart_wait2" /\ sensor.restart_queued) => three_minutes_passed < now
            /\ now <= three_minutes_passed - GraceTicks => sensor.status = "Online")
    /\ [][(pc = "abort_check" /\ pc' # "done")
            => (sensor.status = "Online" /\ pc' = "restart_wait2" /\ sensor' = sensor)]_vars
    /\ [][(pc' = "incident") => (pc = "restart_wait2" /\ sensor' = sensor)]_vars

C13_CompletedStillPending ==
    pc = "open" /\ sensor.status = "Online" /\ sensor.restart_queued

WaiterBeforeLookup == {"restart_wait1", "online_check", "online_wait", "abort_check"}

\* C14: the overall deadline is set once, at the start, and no later step changes it; the
\* abort for a sensor that is still not Online happens only after that deadline has
\* elapsed, ends the invocation with one failed InvocationResult, and the attempt it ends
\* has made no incident lookup, opened no session and commanded no restart.
C14_UnreachableAfterDeadline ==
    /\ [](first_lookup # "pending" => days_later_timeout_length = DeadlineTicks)
    /\ [](incident_lookups <= attempts /\ Len(sessions) <= incident_lookups)
    /\ [](pc \in WaiterBeforeLookup =>
            (incident_lookups < attempts /\ Len(sessions) < attempts /\ restarts < attempts))
    /\ [][(pc # "start") => days_later_timeout_length' = days_later_timeout_length]_vars
    /\ [][(pc = "abort_check" /\ sensor.status # "Online")
            => ( /\ days_later_timeout_length < now
                 /\ pc' = "done"
                 /\ Len(emitted') = 1 /\ Failed(emitted'[1])
                 /\ incident_lookups' = incident_lookups
                 /\ sessions' = sessions
                 /\ restarts' = restarts )
         ]_vars

C14_UnreachableInRetry ==
    pc = "done" /\ outcome = "unreachable" /\ timeouts > 0 /\ sensor.status = "Offline"

\* the step that follows each position of the Availability Waiter when nothing is waited for
AfterWaiterStep(p) ==
    CASE p = "restart_wait1" -> "online_check"
      [] p = "online_check" -> "online_wait"
      [] p = "online_wait" -> "abort_check"
      [] p = "abort_check" -> "restart_wait2"
      [] p = "restart_wait2" -> "incident"

\* C15: with a snapshot that is Online and not restart-pending, every step of the
\* Availability Waiter goes on to the next position without a sleep, an inventory query
\* or a notice, so that from the first check the incident lookup is reached with no polling.
C15_ReadyAgentNoPolling ==
    [][(pc \in WaiterBeforeLookup \cup {"restart_wait2"}
            /\ sensor.status = "Online" /\ ~sensor.restart_queued)
        => ( /\ pc' = AfterWaiterStep(pc)
             /\ sleeps' = sleeps /\ clock' = clock
             /\ queried' = queried /\ sensor' = sensor
             /\ notices' = notices )
      ]_vars

C15_LookupReachedWithoutPolling ==
    /\ pc = "incident" /\ attempts = 1
    /\ sensor.status = "Online" /\ ~sensor.restart_queued
    /\ sleeps = 0 /\ notices = 0 /\ clock = 0

\* C16: a probe of a candidate location that times out always hands over to the timeout
\* handler, which counts it; a probe that fails otherwise goes on to the next step (the
\* other location after the first, the no-logs check after the second) and the files
\* collected so far are kept; a probe that succeeds only appends to them.
C16_ListingTimeoutPropagates ==
    /\ [][(pc \in {"probe1", "probe2"})
            => ( /\ Len(listed') = Len(listed) + 1
                 /\ listed'[Len(listed')] = "timeout"
                      => (pc' = "except_timeout" /\ files_to_grab' = files_to_grab)
                 /\ listed'[Len(listed')] = "error"
                      => /\ pc' = (IF pc = "probe1" THEN "probe2" ELSE "nologs_check")
                         /\ files_to_grab' = files_to_grab
                 /\ listed'[Len(listed')] = "ok"
                      => /\ pc' = (IF pc = "probe1" THEN "probe2" ELSE "nologs_check")
                         /\ Len(files_to_grab') >= Len(files_to_grab)
                         /\ SubSeq(files_to_grab', 1, Len(files_to_grab)) = files_to_grab )
         ]_vars
    /\ [][(pc = "except_timeout") => (timeouts' = timeouts + 1 /\ pc' = "recover_close")]_vars

C16_ErrorKeepsCollectedFiles ==
    pc = "nologs_check" /\ listed = <<"ok", "error">> /\ files_to_grab = <<"Antimalware">>

AttemptPrologue ==
    {"loop", "restart_wait1", "online_check", "online_wait", "abort_check", "restart_wait2",
     "incident", "open"}

\* C17: a session open is reached only through the incident lookup, the incident lookup
\* only through the second restart-pending wait, and so on back through the abort check,
\* the online wait, the advisory check and the first restart-pending wait to the loop
\* head; after a timeout the loop head is reached only through the settle wait and
\* refresh, that only through a restart command, that only through the refresh, and that
\* only through the close of the session, in the timeout handler.
C17_RecoveryPrecedesNextOpen ==
    /\ [](pc \in AttemptPrologue => (restarts = timeouts /\ OpenSessions = {}))
    /\ [][(Len(sessions') > Len(sessions)) => (pc = "open" /\ pc' = "probe1")]_vars
    /\ [][(pc' # pc)
            => ( /\ pc' = "open" => (pc = "incident" /\ incident_lookups' = incident_lookups + 1)
                 /\ pc' = "incident" => pc = "restart_wait2"
                 /\ pc' = "restart_wait2" => pc = "abort_check"
                 /\ pc' = "abort_check" => pc = "online_wait"
                 /\ pc' = "online_wait" => pc = "online_check"
                 /\ pc' = "online_check" => pc = "restart_wait1"
                 /\ pc' = "restart_wait1" => pc = "loop"
                 /\ pc' = "loop" =>
                      \/ pc = "select" /\ timeouts' = 0
                      \/ /\ pc = "recover_settle" /\ timeouts > 0
                         /\ clock' = clock + SettleTicks /\ sleeps' = sleeps + 1
                         /\ hostname \in queried'
                 /\ pc' = "recover_settle" => (pc = "recover_restart" /\ restarts' = restarts + 1)
                 /\ pc' = "recover_restart" => (pc = "recover_refresh" /\ hostname \in queried')
                 /\ pc' = "recover_refresh" => (pc = "recover_close" /\ OpenSessions' = {})
                 /\ pc' = "recover_close" => pc = "except_timeout" )
         ]_vars

C17_SessionOpenedAfterRecovery ==
    /\ pc = "probe1" /\ Len(sessions) = 2 /\ timeouts = 1 /\ restarts = 1
    /\ sessions[1].closes = 1 /\ sessions[2].open

\* order of the positions within one pass of the retry loop, the recovery first
StageRank(p) ==
    CASE p = "start" -> 40
      [] p = "select" -> 39
      [] p = "not_found" -> 38
      [] p = "recover_close" -> 30
      [] p = "recover_refresh" -> 29
      [] p = "recover_restart" -> 28
      [] p = "recover_settle" -> 27
      [] p = "loop" -> 26
      [] p = "restart_wait1" -> 25
      [] p = "online_check" -> 24
      [] p = "online_wait" -> 23
      [] p = "abort_check" -> 22
      [] p = "restart_wait2" -> 21
      [] p = "incident" -> 20
      [] p = "open" -> 19
      [] p = "probe1" -> 18
      [] p = "probe2" -> 17
      [] p = "nologs_check" -> 16
      [] p = "extract" -> 15
      [] p = "post" -> 14
      [] p = "else_branch" -> 13
      [] p = "except_exception" -> 12
      [] p = "except_timeout" -> 11
      [] p = "final_close" -> 10
      [] p = "emit_result" -> 9
      [] p = "function_error" -> 8
      [] p = "done" -> 0

\* iterations the loop at the current position can still make
LoopBudget ==
    CASE pc \in {"restart_wait1", "restart_wait2"} ->
           IF sensor.restart_queued /\ three_minutes_passed >= now
           THEN three_minutes_passed - now + 1 ELSE 0
      [] pc = "online_wait" ->
           IF sensor.status # "Online" /\ days_later_timeout_length >= now
           THEN days_later_timeout_length - now + 1 ELSE 0
      [] pc = "extract" -> Len(files_to_grab) - fetched
      [] OTHER -> 0

RankMid == GraceTicks + DeadlineTicks + 2 * MaxListing + 2

RankBig == 50 * RankMid

\* a measure of the work an invocation can still do
Rank == (MAX_TIMEOUTS + 1 - timeouts) * RankBig + StageRank(pc) * RankMid + LoopBudget

\* C18: timeouts starts at 0, changes only in the timeout handler and there by one, and
\* never exceeds MAX_TIMEOUTS + 1 = 4; at most 4 attempts are started and at most 4
\* sessions opened, none once timeouts exceeds 3; and every invocation ends: as long as it
\* has not ended a step is possible, and every step lowers a measure that is never
\* negative (each poll moves the clock on by the polling sleep).
C18_BoundedRetriesAndTermination ==
    /\ timeouts = 0
    /\ [](timeouts \in 0..(MAX_TIMEOUTS + 1))
    /\ [](attempts <= MAX_TIMEOUTS + 1 /\ Len(sessions) <= attempts)
    /\ [](Rank >= 0 /\ (pc # "done" => ENABLED Next))
    /\ [][ /\ timeouts' = (IF pc = "except_timeout" THEN timeouts + 1 ELSE timeouts)
           /\ attempts' # attempts => (timeouts <= MAX_TIMEOUTS /\ attempts' = attempts + 1)
           /\ Rank' < Rank ]_vars

C18_FourAttemptsMade ==
    pc = "done" /\ timeouts = MAX_TIMEOUTS + 1 /\ attempts = MAX_TIMEOUTS + 1 /\ Len(sessions) = 4

\* C19: while the sensor is restart-pending, a restart-pending wait polls only as long as
\* the grace window has not elapsed, each poll moving 'now' on by the polling sleep; once
\* the window has elapsed the wait is left for the next step with no notice, no result and
\* no timeout counted; an Online snapshot then passes the online check unchanged, and
\* the incident lookup that follows is followed by the session open or the quiet exit.
C19_PendingRestartDoesNotFail ==
    /\ [](pc \in {"restart_wait1", "restart_wait2"} => now <= three_minutes_passed + PollTicks)
    /\ [][(pc \in {"restart_wait1", "restart_wait2"} /\ sensor.restart_queued)
            => IF three_minutes_passed >= now
               THEN /\ pc' \in {pc, "except_timeout", "except_exception"}
                    /\ now' >= now + PollTicks /\ now' = clock'
                    /\ sleeps' = sleeps + 1
                    /\ three_minutes_passed' = three_minutes_passed
               ELSE /\ pc' = AfterWaiterStep(pc)
                    /\ sensor' = sensor /\ sleeps' = sleeps
                    /\ notices' = notices /\ results' = results /\ emitted' = emitted
                    /\ timeouts' = timeouts
         ]_vars
    /\ [][(pc \in {"online_check", "online_wait", "abort_check"} /\ sensor.status = "Online")
            => (pc' = AfterWaiterStep(pc) /\ sensor' = sensor /\ notices' = notices
                  /\ sleeps' = sleeps /\ emitted' = emitted)]_vars
    /\ [][(pc = "incident") => (pc' \in {"open", "done"} /\ sensor' = sensor)]_vars

C19_OpenWithRestartPending ==
    /\ pc = "probe1" /\ attempts = 1 /\ timeouts = 0 /\ Len(sessions) = 1
    /\ sensor.restart_queued /\ sensor.status = "Online"
    /\ three_minutes_passed < now /\ sleeps >= 2

\* C20: the restart command is issued only by the timeout handler, one command at a time,
\* when no session of the invocation is open and the timeouts counter has just been
\* incremented, so that the restarts commanded equal the timeouts counted.
C20_RestartOnlyInRecovery ==
    /\ [](restarts <= timeouts)
    /\ [](pc \in {"recover_refresh", "recover_restart"}
            => (OpenSessions = {} /\ restarts = timeouts - 1))
    /\ [][(restarts' # restarts)
            => ( /\ pc = "recover_restart" /\ pc' = "recover_settle"
                 /\ restarts' = restarts + 1
                 /\ restarts' = timeouts /\ timeouts' = timeouts
                 /\ OpenSessions = {} /\ sessions' = sessions )
         ]_vars

C20_RestartAfterSessionClosed ==
    /\ pc = "recover_settle" /\ restarts = 1 /\ timeouts = 1
    /\ Len(sessions) = 1 /\ ~sessions[1].open /\ sessions[1].closes = 1
====
